---- MODULE Spec2Model ----
(***************************************************************************)
(* State-machine model of pymachinetalk/dns_sd.py: Service,               *)
(* ServiceDiscoveryFilter, ServiceDiscovery and ServiceContainer.         *)
(*                                                                         *)
(* Python values are tagged records [kind, repr] so that bytes, str and   *)
(* int stay distinct and bytes.decode() is a real conversion.  Names and  *)
(* DNS-SD type strings, which the code searches with `in`, are sequences  *)
(* of tokens ("_", ".", and words).                                       *)
(***************************************************************************)
EXTENDS Integers, Sequences, FiniteSets, TLC

(* ------------------------------ bounds -------------------------------- *)
\* most records all Services together may hold
MaxInfos == 2
\* longest ServiceDiscovery.services list
MaxRegistered == 2

(* --------------------------- python values ---------------------------- *)
PyStr(x) == [kind |-> "str", repr |-> x]
PyBytes(x) == [kind |-> "bytes", repr |-> x]
PyInt(x) == [kind |-> "int", repr |-> x]

\* bytes.decode(): the str with the same characters
Decode(b) == PyStr(b.repr)

\* dict.get(key, default)
DictGet(d, key, default) == IF key \in DOMAIN d THEN d[key] ELSE default

\* `s in t` on strings
IsSubstring(s, t) ==
    \E i \in 0..(Len(t) - Len(s)) : SubSeq(t, i + 1, i + Len(s)) = s

\* the value None
None == [none |-> TRUE]

\* a list attribute that may also be None
PyNoList == [none |-> TRUE, list |-> <<>>]
PyList(l) == [none |-> FALSE, list |-> l]
\* truth value of None / a list
Truthy(x) == ~x.none /\ x.list # <<>>

(* ------------------------------ universe ------------------------------ *)
Services == {"s1", "s2"}
Containers == {"c1"}

\* Service.type, the constructor argument
ServiceType == [s \in Services |-> IF s = "s1" THEN PyStr("launcher") ELSE PyStr("config")]

\* '_machinekit._tcp.local.' and a type of another protocol
MulticastType == <<"_", "machinekit", ".", "_", "tcp", ".", "local", ".">>
UdpType == <<"_", "machinekit", ".", "_", "udp", ".", "local", ".">>

\* ServiceInfo objects: a full launcher record, a config record without dsn and
\* version, and a launcher record announced under another protocol
InfoLauncherA ==
    [name |-> <<"launcher", "hostA">>, type |-> MulticastType,
     properties |-> [service |-> PyBytes("launcher"), dsn |-> PyBytes("tcp://a:1"),
                     uuid |-> PyBytes("u1"), version |-> PyBytes("1")]]
InfoConfigB ==
    [name |-> <<"config", "hostB">>, type |-> MulticastType,
     properties |-> [service |-> PyBytes("config"), uuid |-> PyBytes("u3")]]
InfoLauncherUdp ==
    [name |-> <<"launcher", "hostC">>, type |-> UdpType,
     properties |-> [service |-> PyBytes("launcher")]]
\* records a caller passes to the Service methods
CallerInfos == {InfoLauncherA, InfoConfigB}
\* records get_service_info may resolve an event to
Infos == CallerInfos \cup {InfoLauncherUdp}

\* threads other than the one calling start() and stop(): the discovery
\* library's, or further callers of one Service
Threads == {"t1", "t2"}
Idle == [pc |-> "idle", s |-> "none", info |-> None]

\* ServiceDiscoveryFilter(name, txt_records); txt_records in iteration order
FilterDefault == [name |-> <<>>, txt_records |-> <<>>]
FilterStrict ==
    [name |-> <<"launcher">>, txt_records |-> << <<"uuid", PyBytes("u3")>> >>]

\* ServiceDiscovery(filter_=..., nameservers=...): multicast with the default
\* filter, unicast with a filter on name and uuid (start reads only the
\* nameservers, the event handlers only the filter)
Configurations ==
    {[filter |-> FilterDefault, nameservers |-> <<>>],
     [filter |-> FilterStrict, nameservers |-> <<"10.0.0.1", "10.0.0.2">>]}

\* what register()/unregister() are called with
ServiceItem(s) == [kind |-> "Service", id |-> s]
ContainerItem(c) == [kind |-> "ServiceContainer", id |-> c]
Items == {ServiceItem(s) : s \in Services} \cup {ContainerItem(c) : c \in Containers}

(* ------------------------------- state -------------------------------- *)
VARIABLES
    name, uri, uuid, version, ready,     \* Service fields, per Service
    service_infos,                       \* Service.service_infos
    on_ready_changed,                    \* Service.on_ready_changed: subscribed containers
    container_services,                  \* ServiceContainer._services
    services_ready,                      \* ServiceContainer._services_ready
    filter, nameservers,                 \* ServiceDiscovery configuration
    is_ready, services,                  \* ServiceDiscovery.is_ready, .services
    browsers, zeroconfs,                 \* ServiceDiscovery._browsers, ._zeroconfs
    notified,                            \* change callbacks run by the last call, in order
    error,                               \* exception raised by the last call, or "none"
    running,                             \* start() was called and stop() not since
    observed,                            \* what each ready callback of the last call saw
    unclosed,                            \* Zeroconf sessions opened and not closed
    threads                              \* per thread: the call it is inside, and where

vars == <<name, uri, uuid, version, ready, service_infos, on_ready_changed,
          container_services, services_ready, filter, nameservers, is_ready,
          services, browsers, zeroconfs, notified, error, running, observed,
          unclosed, threads>>

\* the mutable objects as one value, threaded through the calls of a handler
State ==
    [name |-> name, uri |-> uri, uuid |-> uuid, version |-> version, ready |-> ready,
     service_infos |-> service_infos, on_ready_changed |-> on_ready_changed,
     container_services |-> container_services, services_ready |-> services_ready,
     is_ready |-> is_ready, services |-> services, browsers |-> browsers,
     zeroconfs |-> zeroconfs, notified |-> <<>>, error |-> "none",
     observed |-> <<>>, unclosed |-> unclosed]

Commit(st) ==
    /\ name' = st.name
    /\ uri' = st.uri
    /\ uuid' = st.uuid
    /\ version' = st.version
    /\ ready' = st.ready
    /\ service_infos' = st.service_infos
    /\ on_ready_changed' = st.on_ready_changed
    /\ container_services' = st.container_services
    /\ services_ready' = st.services_ready
    /\ is_ready' = st.is_ready
    /\ services' = st.services
    /\ browsers' = st.browsers
    /\ zeroconfs' = st.zeroconfs
    /\ notified' = st.notified
    /\ error' = st.error
    /\ observed' = st.observed
    /\ unclosed' = st.unclosed
    /\ UNCHANGED <<filter, nameservers>>

Raise(st, exc) == [st EXCEPT !.error = exc]

\* sum of the lengths of the lists f holds
RECURSIVE TotalLen(_, _)
TotalLen(f, keys) ==
    IF keys = {} THEN 0
    ELSE LET k == CHOOSE x \in keys : TRUE
         IN Len(f[k]) + TotalLen(f, keys \ {k})

\* list.remove(x) for a list without the element's own __eq__: first identical entry
RECURSIVE ListRemove(_, _)
ListRemove(list, x) ==
    IF list = <<>> THEN <<>>
    ELSE IF Head(list) = x THEN Tail(list)
    ELSE <<Head(list)>> \o ListRemove(Tail(list), x)

Contains(list, x) == \E i \in 1..Len(list) : list[i] = x

(* -------------------------- ServiceContainer -------------------------- *)
\* the services_ready setter; each callback in on_services_ready_changed is
\* called with value, recorded in notified
ServiceContainer_set_services_ready(st, c, value) ==
    IF value # st.services_ready[c]
    THEN [st EXCEPT !.services_ready[c] = value,
                    !.notified = Append(@, [src |-> c, value |-> value])]
    ELSE st

ServiceContainer_update_services_ready(st, c) ==
    LET members == st.container_services[c]
        allReady == \A i \in 1..Len(members) : st.ready[members[i]]
    IN ServiceContainer_set_services_ready(st, c, allReady)

ServiceContainer_add_service(st, c, s) ==
    [st EXCEPT !.container_services[c] = Append(@, s),
               !.on_ready_changed[s] = Append(@, c)]

\* mutant: the Service is dropped from the list but stays subscribed
ServiceContainer_remove_service_NoUnsubscribe(st, c, s) ==
    IF ~Contains(st.container_services[c], s)
    THEN Raise(st, "ValueError")
    ELSE [st EXCEPT !.container_services[c] = ListRemove(@, s)]

ServiceContainer_remove_service(st, c, s) ==
    IF ~Contains(st.container_services[c], s)
    THEN Raise(st, "ValueError")
    ELSE [st EXCEPT !.container_services[c] = ListRemove(@, s),
                    !.on_ready_changed[s] = ListRemove(@, c)]

(* ------------------------------ Service ------------------------------- *)
\* the Service as a callback called with value reads it
Observation(st, s, value) ==
    [src |-> s, value |-> value, name |-> st.name[s], uri |-> st.uri[s],
     uuid |-> st.uuid[s], version |-> st.version[s]]

\* for cb in self.on_ready_changed: cb(value)
RECURSIVE RunReadyCallbacks(_, _, _)
RunReadyCallbacks(st, cbs, value) ==
    IF cbs = <<>> THEN st
    ELSE RunReadyCallbacks(ServiceContainer_update_services_ready(st, Head(cbs)),
                           Tail(cbs), value)

\* mutant: the setter without the comparison with the old value
Service_set_ready_Always(st, s, value) ==
    RunReadyCallbacks(
        [st EXCEPT !.ready[s] = value,
                   !.notified = Append(@, [src |-> s, value |-> value])],
        st.on_ready_changed[s], value)

\* mutant: the callbacks run before the new value is stored
Service_set_ready_CallbacksFirst(st, s, value) ==
    IF value # st.ready[s]
    THEN LET st1 == RunReadyCallbacks(
                        [st EXCEPT !.notified = Append(@, [src |-> s, value |-> value])],
                        st.on_ready_changed[s], value)
         IN [st1 EXCEPT !.ready[s] = value]
    ELSE st

\* the ready setter
Service_set_ready(st, s, value) ==
    IF value # st.ready[s]
    THEN RunReadyCallbacks(
             [st EXCEPT !.ready[s] = value,
                        !.notified = Append(@, [src |-> s, value |-> value]),
                        !.observed = Append(@, Observation(st, s, value))],
             st.on_ready_changed[s], value)
    ELSE st

\* '_%s._%s.%s.' % (base_type, protocol, domain)
Service_typestring(s) == <<"_", "machinekit", ".", "_", "tcp", ".", "local", ".">>

Service_matches_service_info(s, info) ==
    /\ ServiceType[s] = Decode(DictGet(info.properties, "service", PyBytes("")))
    /\ IsSubstring(Service_typestring(s), info.type)

\* Service.__eq__(other) for a ServiceInfo
Service_eq(st, s, other) == st.name[s] = other.name

\* ServiceInfo.__eq__ of the discovery library: same name
ServiceInfo_eq(a, b) == a.name = b.name

\* list.remove(info) on a list of ServiceInfo
RECURSIVE InfoListRemove(_, _)
InfoListRemove(list, info) ==
    IF list = <<>> THEN <<>>
    ELSE IF ServiceInfo_eq(Head(list), info) THEN Tail(list)
    ELSE <<Head(list)>> \o InfoListRemove(Tail(list), info)

Service_set_all_values_from_service_info(st, s, info) ==
    [st EXCEPT !.name[s] = info.name,
               !.uri[s] = Decode(DictGet(info.properties, "dsn", PyBytes(""))),
               !.uuid[s] = Decode(DictGet(info.properties, "uuid", PyBytes(""))),
               !.version[s] = DictGet(info.properties, "version", PyBytes(""))]

Service_init_all_values(st, s) ==
    [st EXCEPT !.name[s] = <<>>,
               !.uri[s] = PyStr(""),
               !.uuid[s] = PyStr(""),
               !.version[s] = PyInt("0")]

Service_update(st, s) ==
    IF Len(st.service_infos[s]) > 0
    THEN Service_set_ready(
             Service_set_all_values_from_service_info(st, s, st.service_infos[s][1]),
             s, TRUE)
    ELSE Service_init_all_values(Service_set_ready(st, s, FALSE), s)

Service_add_service_info(st, s, info) ==
    Service_update([st EXCEPT !.service_infos[s] = Append(@, info)], s)

\* mutant: remove without the call of _update
Service_remove_service_info_NoUpdate(st, s, info) ==
    LET held == st.service_infos[s]
        hits == {i \in 1..Len(held) : Service_eq(st, s, held[i])}
        first == CHOOSE i \in hits : \A j \in hits : i <= j
    IN IF hits = {} THEN st
       ELSE [st EXCEPT !.service_infos[s] = InfoListRemove(held, held[first])]

\* the loop variable shadows the parameter: the records are compared with self
Service_remove_service_info(st, s, info) ==
    LET held == st.service_infos[s]
        hits == {i \in 1..Len(held) : Service_eq(st, s, held[i])}
        first == CHOOSE i \in hits : \A j \in hits : i <= j
        st1 == IF hits = {} THEN st
               ELSE [st EXCEPT !.service_infos[s] = InfoListRemove(held, held[first])]
    IN Service_update(st1, s)

\* mutant: clear without the call of _update
Service_clear_service_infos_NoUpdate(st, s) ==
    [st EXCEPT !.service_infos[s] = <<>>]

Service_clear_service_infos(st, s) ==
    Service_update([st EXCEPT !.service_infos[s] = <<>>], s)

(* ----------------------- ServiceDiscoveryFilter ----------------------- *)
\* the loop over txt_records: "done", "break" (a value differs) or "KeyError"
\* (info.properties[name] of a key the record lacks)
RECURSIVE TxtRecordsLoop(_, _)
TxtRecordsLoop(txt, properties) ==
    IF txt = <<>> THEN "done"
    ELSE IF Head(txt)[1] \notin DOMAIN properties THEN "KeyError"
    ELSE IF properties[Head(txt)[1]] # Head(txt)[2] THEN "break"
    ELSE TxtRecordsLoop(Tail(txt), properties)

\* "True", "False", or the exception raised: "TypeError" for an argument that is
\* no ServiceInfo, "KeyError" when the lookup fails
ServiceDiscoveryFilter_matches_service_info(f, info) ==
    IF info = None THEN "TypeError"
    ELSE LET nameMatch == IsSubstring(f.name, info.name)
             loop == TxtRecordsLoop(f.txt_records, info.properties)
         IN IF loop = "KeyError" THEN "KeyError"
            ELSE IF nameMatch /\ loop = "done" THEN "True"
            ELSE "False"

(* -------------------------- ServiceDiscovery -------------------------- *)
\* service_type, the constructor default
SdServiceType == "machinekit"

\* any(self.nameservers)
AnyNameserver(ns) == \E i \in 1..Len(ns) : ns[i] # ""

ServiceDiscovery_start_multicast_discovery(st) ==
    LET type_string == <<"_", SdServiceType, ".", "_", "tcp", ".", "local", ".">>
        zc == Len(st.zeroconfs.list) + 1
    IN [st EXCEPT !.zeroconfs = PyList(Append(@.list, [unicast |-> FALSE])),
                  !.unclosed = @ + 1,
                  !.browsers = PyList(Append(@.list,
                                   [zeroconf |-> zc, type |-> type_string, addr |-> "None"]))]

\* mutant: only the first nameserver gets a ServiceBrowser
RECURSIVE ServiceDiscovery_start_unicast_discovery_FirstOnly(_, _, _)
ServiceDiscovery_start_unicast_discovery_FirstOnly(st, svcs, ns) ==
    IF svcs = <<>> THEN st
    ELSE LET type_string == <<"_", ServiceType[Head(svcs)].repr, ".", "_", "sub", ".",
                              "_", SdServiceType, ".", "_", "tcp", ".", "local", ".">>
             zc == Len(st.zeroconfs.list) + 1
             opened == <<[zeroconf |-> zc, type |-> type_string, addr |-> ns[1]]>>
         IN ServiceDiscovery_start_unicast_discovery_FirstOnly(
                [st EXCEPT !.zeroconfs = PyList(Append(@.list, [unicast |-> TRUE])),
                           !.unclosed = @ + 1,
                           !.browsers = PyList(@.list \o opened)],
                Tail(svcs), ns)

\* one Zeroconf per registered service, one ServiceBrowser per nameserver on it
RECURSIVE ServiceDiscovery_start_unicast_discovery(_, _, _)
ServiceDiscovery_start_unicast_discovery(st, svcs, ns) ==
    IF svcs = <<>> THEN st
    ELSE LET type_string == <<"_", ServiceType[Head(svcs)].repr, ".", "_", "sub", ".",
                              "_", SdServiceType, ".", "_", "tcp", ".", "local", ".">>
             zc == Len(st.zeroconfs.list) + 1
             opened == [j \in 1..Len(ns) |->
                           [zeroconf |-> zc, type |-> type_string, addr |-> ns[j]]]
         IN ServiceDiscovery_start_unicast_discovery(
                [st EXCEPT !.zeroconfs = PyList(Append(@.list, [unicast |-> TRUE])),
                           !.unclosed = @ + 1,
                           !.browsers = PyList(@.list \o opened)],
                Tail(svcs), ns)

ServiceDiscovery_start_discovery(st, ns) ==
    LET st1 == [st EXCEPT !.zeroconfs = PyList(<<>>), !.browsers = PyList(<<>>)]
    IN IF AnyNameserver(ns)
       THEN ServiceDiscovery_start_unicast_discovery(st1, st1.services, ns)
       ELSE ServiceDiscovery_start_multicast_discovery(st1)

RECURSIVE ClearAll(_, _)
ClearAll(st, svcs) ==
    IF svcs = <<>> THEN st
    ELSE ClearAll(Service_clear_service_infos(st, Head(svcs)), Tail(svcs))

\* mutant: the sessions are released but the services keep their records
ServiceDiscovery_stop_discovery_NoClear(st) ==
    [st EXCEPT !.unclosed = @ - Len(st.zeroconfs.list),
               !.zeroconfs = PyList(<<>>), !.browsers = PyList(<<>>)]

\* mutant: the handles are dropped without zeroconf.close()
ServiceDiscovery_stop_discovery_NoClose(st) ==
    ClearAll([st EXCEPT !.zeroconfs = PyList(<<>>), !.browsers = PyList(<<>>)],
             st.services)

\* zeroconf.close() for each, then the two lists emptied and the services cleared
ServiceDiscovery_stop_discovery(st) ==
    ClearAll([st EXCEPT !.unclosed = @ - Len(st.zeroconfs.list),
                        !.zeroconfs = PyList(<<>>), !.browsers = PyList(<<>>)],
             st.services)

\* mutant: the loop of add_service with `or` between the two matches
RECURSIVE AddLoop_Or(_, _, _, _)
AddLoop_Or(st, svcs, f, info) ==
    IF svcs = <<>> THEN st
    ELSE LET m == ServiceDiscoveryFilter_matches_service_info(f, info)
         IN IF m \in {"TypeError", "KeyError"} THEN Raise(st, m)
            ELSE IF m = "True" \/ Service_matches_service_info(Head(svcs), info)
                 THEN AddLoop_Or(Service_add_service_info(st, Head(svcs), info),
                                 Tail(svcs), f, info)
                 ELSE AddLoop_Or(st, Tail(svcs), f, info)

\* the loop of add_service over self.services
RECURSIVE AddLoop(_, _, _, _)
AddLoop(st, svcs, f, info) ==
    IF svcs = <<>> THEN st
    ELSE LET m == ServiceDiscoveryFilter_matches_service_info(f, info)
         IN IF m \in {"TypeError", "KeyError"} THEN Raise(st, m)
            ELSE IF m = "True" /\ Service_matches_service_info(Head(svcs), info)
                 THEN AddLoop(Service_add_service_info(st, Head(svcs), info),
                              Tail(svcs), f, info)
                 ELSE AddLoop(st, Tail(svcs), f, info)

\* mutant: add_service without the early return on None
ServiceDiscovery_add_service_NoNoneCheck(st, f, info) ==
    AddLoop(st, st.services, f, info)

ServiceDiscovery_add_service(st, f, info) ==
    IF info = None THEN st ELSE AddLoop(st, st.services, f, info)

\* the loop of remove_service over self.services
RECURSIVE RemoveLoop(_, _, _, _)
RemoveLoop(st, svcs, f, info) ==
    IF svcs = <<>> THEN st
    ELSE LET m == ServiceDiscoveryFilter_matches_service_info(f, info)
         IN IF m \in {"TypeError", "KeyError"} THEN Raise(st, m)
            ELSE IF m = "True" /\ Service_matches_service_info(Head(svcs), info)
                 THEN RemoveLoop(Service_remove_service_info(st, Head(svcs), info),
                                 Tail(svcs), f, info)
                 ELSE RemoveLoop(st, Tail(svcs), f, info)

ServiceDiscovery_remove_service(st, f, info) ==
    IF info = None THEN st ELSE RemoveLoop(st, st.services, f, info)

\* the services _verify_item_and_run applies cmd to, in order
ItemServices(st, item) ==
    IF item.kind = "ServiceContainer" THEN st.container_services[item.id]
    ELSE <<item.id>>

\* self.services.remove(service) for each; the first absent one raises ValueError
RECURSIVE RemoveEach(_, _)
RemoveEach(st, svcs) ==
    IF svcs = <<>> THEN st
    ELSE IF ~Contains(st.services, Head(svcs)) THEN Raise(st, "ValueError")
    ELSE RemoveEach([st EXCEPT !.services = ListRemove(@, Head(svcs))], Tail(svcs))

\* mutant: register without the is_ready guard
ServiceDiscovery_register_NoGuard(st, item) ==
    [st EXCEPT !.services = @ \o ItemServices(st, item)]

ServiceDiscovery_register(st, item) ==
    IF st.is_ready THEN Raise(st, "RuntimeError")
    ELSE [st EXCEPT !.services = @ \o ItemServices(st, item)]

ServiceDiscovery_unregister(st, item) ==
    IF st.is_ready THEN Raise(st, "RuntimeError")
    ELSE RemoveEach(st, ItemServices(st, item))

\* mutant: start without the guard on the session handles
ServiceDiscovery_start_NoGuard(st, ns) ==
    ServiceDiscovery_start_discovery([st EXCEPT !.is_ready = TRUE], ns)

ServiceDiscovery_start(st, ns) ==
    IF ~Truthy(st.browsers)
    THEN ServiceDiscovery_start_discovery([st EXCEPT !.is_ready = TRUE], ns)
    ELSE st

ServiceDiscovery_stop(st) ==
    IF Truthy(st.browsers)
    THEN ServiceDiscovery_stop_discovery([st EXCEPT !.is_ready = FALSE])
    ELSE st

(* ------------------------------ behaviour ----------------------------- *)
Init ==
    /\ name = [s \in Services |-> <<>>]
    /\ uri = [s \in Services |-> PyStr("")]
    /\ uuid = [s \in Services |-> PyStr("")]
    /\ version = [s \in Services |-> PyInt("0")]
    /\ ready = [s \in Services |-> FALSE]
    /\ service_infos = [s \in Services |-> <<>>]
    /\ on_ready_changed = [s \in Services |-> <<>>]
    /\ container_services = [c \in Containers |-> <<>>]
    /\ services_ready = [c \in Containers |-> FALSE]
    /\ \E cfg \in Configurations :
           filter = cfg.filter /\ nameservers = cfg.nameservers
    /\ is_ready = FALSE
    /\ services = <<>>
    /\ browsers = PyNoList
    /\ zeroconfs = PyNoList
    /\ notified = <<>>
    /\ error = "none"
    /\ running = FALSE
    /\ observed = <<>>
    /\ unclosed = 0
    /\ threads = [t \in Threads |-> Idle]

\* the model's bounds on the lists
WithinBounds(st) ==
    /\ TotalLen(st.service_infos, Services) <= MaxInfos
    /\ Len(st.services) <= MaxRegistered

Call(st) == WithinBounds(st) /\ Commit(st) /\ UNCHANGED threads

\* caller: Service methods
AddServiceInfo(s, info) ==
    Call(Service_add_service_info(State, s, info)) /\ UNCHANGED running

RemoveServiceInfo(s, info) ==
    Call(Service_remove_service_info(State, s, info)) /\ UNCHANGED running

ClearServiceInfos(s) ==
    Call(Service_clear_service_infos(State, s)) /\ UNCHANGED running

\* caller: ServiceContainer methods
\* (a caller adds a Service to a container once, until it removes it)
ContainerAddService(c, s) ==
    /\ ~Contains(container_services[c], s)
    /\ Call(ServiceContainer_add_service(State, c, s))
    /\ UNCHANGED running

ContainerRemoveService(c, s) ==
    Call(ServiceContainer_remove_service(State, c, s)) /\ UNCHANGED running

\* caller: ServiceDiscovery methods
Register(item) ==
    Call(ServiceDiscovery_register(State, item)) /\ UNCHANGED running

Unregister(item) ==
    Call(ServiceDiscovery_unregister(State, item)) /\ UNCHANGED running

Start ==
    Call(ServiceDiscovery_start(State, nameservers)) /\ running' = TRUE

Stop ==
    Call(ServiceDiscovery_stop(State)) /\ running' = FALSE

\* discovery library: a browsing session reports a record; get_service_info
\* resolves it to info, or to None
OnAddService(info) ==
    /\ Truthy(browsers)
    /\ Call(ServiceDiscovery_add_service(State, filter, info))
    /\ UNCHANGED running

OnRemoveService(info) ==
    /\ Truthy(browsers)
    /\ Call(ServiceDiscovery_remove_service(State, filter, info))
    /\ UNCHANGED running

\* discovery library thread t inside add_service: get_service_info has
\* returned info
CallbackResolve(t, info) ==
    /\ Truthy(browsers)
    /\ threads[t] = Idle
    /\ threads' = [threads EXCEPT ![t] = [pc |-> "resolved", s |-> "none", info |-> info]]
    /\ UNCHANGED <<name, uri, uuid, version, ready, service_infos, on_ready_changed,
                   container_services, services_ready, filter, nameservers, is_ready,
                   services, browsers, zeroconfs, notified, error, running, observed,
                   unclosed>>

\* ... and t goes on with the None test and the loop over self.services
CallbackDeliver(t) ==
    /\ threads[t].pc = "resolved"
    /\ LET st == ServiceDiscovery_add_service(State, filter, threads[t].info)
       IN WithinBounds(st) /\ Commit(st)
    /\ threads' = [threads EXCEPT ![t] = Idle]
    /\ UNCHANGED running

\* for info in self.service_infos: if self == info: remove(info); break
RemoveLoopOfService(st, s) ==
    LET held == st.service_infos[s]
        hits == {i \in 1..Len(held) : Service_eq(st, s, held[i])}
        first == CHOOSE i \in hits : \A j \in hits : i <= j
    IN IF hits = {} THEN st
       ELSE [st EXCEPT !.service_infos[s] = InfoListRemove(held, held[first])]

\* thread t executes one statement of a Service method and moves to pc
Step(t, st, pc, s, info) ==
    /\ WithinBounds(st)
    /\ Commit(st)
    /\ threads' = [threads EXCEPT ![t] = [pc |-> pc, s |-> s, info |-> info]]
    /\ UNCHANGED running

\* add_service_info: self.service_infos.append(service_info)
ThreadAdd(t, s, info) ==
    /\ threads[t] = Idle
    /\ Step(t, [State EXCEPT !.service_infos[s] = Append(@, info)], "update", s, None)

\* remove_service_info: the loop that removes the first held record
ThreadRemove(t, s, info) ==
    /\ threads[t] = Idle
    /\ Step(t, RemoveLoopOfService(State, s), "update", s, None)

\* clear_service_infos: self.service_infos = []
ThreadClear(t, s) ==
    /\ threads[t] = Idle
    /\ Step(t, [State EXCEPT !.service_infos[s] = <<>>], "update", s, None)

\* _update: if len(self.service_infos) > 0
ThreadUpdateTest(t) ==
    /\ threads[t].pc = "update"
    /\ Step(t, State,
            IF Len(service_infos[threads[t].s]) > 0 THEN "read" ELSE "unready",
            threads[t].s, None)

\* info = self.service_infos[0]
ThreadUpdateRead(t) ==
    /\ threads[t].pc = "read"
    /\ LET s == threads[t].s
       IN IF service_infos[s] = <<>>
          THEN Step(t, Raise(State, "IndexError"), "idle", "none", None)
          ELSE Step(t, State, "set", s, service_infos[s][1])

\* self._set_all_values_from_service_info(info)
ThreadUpdateSet(t) ==
    /\ threads[t].pc = "set"
    /\ Step(t, Service_set_all_values_from_service_info(State, threads[t].s,
                                                        threads[t].info),
            "ready", threads[t].s, None)

\* self.ready = True
ThreadUpdateReady(t) ==
    /\ threads[t].pc = "ready"
    /\ Step(t, Service_set_ready(State, threads[t].s, TRUE), "idle", "none", None)

\* self.ready = False
ThreadUpdateUnready(t) ==
    /\ threads[t].pc = "unready"
    /\ Step(t, Service_set_ready(State, threads[t].s, FALSE), "init", threads[t].s, None)

\* self._init_all_values()
ThreadUpdateInit(t) ==
    /\ threads[t].pc = "init"
    /\ Step(t, Service_init_all_values(State, threads[t].s), "idle", "none", None)

Next ==
    \/ \E s \in Services, info \in CallerInfos : AddServiceInfo(s, info)
    \/ \E s \in Services, info \in CallerInfos : RemoveServiceInfo(s, info)
    \/ \E s \in Services : ClearServiceInfos(s)
    \/ \E c \in Containers, s \in Services : ContainerAddService(c, s)
    \/ \E c \in Containers, s \in Services : ContainerRemoveService(c, s)
    \/ \E item \in Items : Register(item)
    \/ \E item \in Items : Unregister(item)
    \/ Start
    \/ Stop
    \/ \E info \in Infos \cup {None} : OnAddService(info)
    \/ \E info \in Infos \cup {None} : OnRemoveService(info)

Spec == Init /\ [][Next]_vars

\* start() and stop() on the caller's thread, record-added callbacks on the
\* discovery library's threads
NextCallbacks ==
    \/ \E item \in Items : Register(item)
    \/ Start
    \/ Stop
    \/ \E t \in Threads, info \in Infos \cup {None} : CallbackResolve(t, info)
    \/ \E t \in Threads : CallbackDeliver(t)

SpecCallbacks == Init /\ [][NextCallbacks]_vars

\* the methods of the Services, each call on a thread of its own
NextThreads ==
    \/ \E t \in Threads, s \in Services, info \in CallerInfos : ThreadAdd(t, s, info)
    \/ \E t \in Threads, s \in Services, info \in CallerInfos : ThreadRemove(t, s, info)
    \/ \E t \in Threads, s \in Services : ThreadClear(t, s)
    \/ \E t \in Threads : ThreadUpdateTest(t)
    \/ \E t \in Threads : ThreadUpdateRead(t)
    \/ \E t \in Threads : ThreadUpdateSet(t)
    \/ \E t \in Threads : ThreadUpdateReady(t)
    \/ \E t \in Threads : ThreadUpdateUnready(t)
    \/ \E t \in Threads : ThreadUpdateInit(t)

SpecThreads == Init /\ [][NextThreads]_vars

(* ------------------------------- claims ------------------------------- *)
\* C1: after every add_service_info, remove_service_info and
\* clear_service_infos call, ready is True exactly when service_infos is
\* non-empty.
ReadyIffHoldsRecords ==
    \A s \in Services : ready[s] = (Len(service_infos[s]) > 0)

\* one Service holds a record and is ready; a call has just emptied another
ReadyIffHoldsRecordsWitness ==
    \E s \in Services, t \in Services :
        /\ Len(service_infos[s]) = 1 /\ ready[s]
        /\ service_infos[t] = <<>> /\ ~ready[t]
        /\ notified = <<[src |-> t, value |-> FALSE]>>

\* all(s.ready for s in container.services)
AllMembersReady(c) ==
    \A i \in 1..Len(container_services[c]) : ready[container_services[c][i]]

\* C2: in every reachable state of a ServiceContainer, services_ready equals
\* the logical AND of ready over all contained Services, True when empty.
ServicesReadyIsConjunction ==
    \A c \in Containers : services_ready[c] = AllMembersReady(c)

\* C3: while the ServiceDiscovery is running, every register and unregister
\* call fails with the state error and leaves the registered services
\* unchanged.
RegisterWhileRunningFails ==
    [][(running /\ \E item \in Items : Register(item) \/ Unregister(item))
        => (error' = "RuntimeError" /\ services' = services)]_vars

\* a register or unregister call was refused with services registered
RegisterWhileRunningFailsWitness ==
    running /\ error = "RuntimeError" /\ Len(services) = 2

\* C4: stop() on a running ServiceDiscovery with one or more registered
\* Services leaves every registered Service without records and not ready,
\* and is_ready False.
StopClearsRegisteredServices ==
    [][(running /\ Len(services) >= 1 /\ Stop)
        => /\ \A i \in 1..Len(services) :
                 /\ service_infos'[services[i]] = <<>>
                 /\ ready'[services[i]] = FALSE
           /\ is_ready' = FALSE]_vars

\* stop() has just made two registered Services that held records not ready
StopClearsRegisteredServicesWitness ==
    /\ ~running /\ ~is_ready /\ error = "none"
    /\ browsers = PyList(<<>>)
    /\ \A s \in Services : Contains(services, s) /\ service_infos[s] = <<>>
    /\ \A s \in Services : Contains(notified, [src |-> s, value |-> FALSE])

\* C5: for every configuration and any number of registered Services, start()
\* followed by stop() returns the ServiceDiscovery to Idle: is_ready is False.
StartStopReturnsToIdle ==
    [][(running /\ Stop) => is_ready' = FALSE]_vars

\* the values the callbacks of x were called with, in order
NotifiedValues(log, x) ==
    LET RECURSIVE Values(_)
        Values(l) ==
            IF l = <<>> THEN <<>>
            ELSE IF Head(l).src = x THEN <<Head(l).value>> \o Values(Tail(l))
            ELSE Values(Tail(l))
    IN Values(log)

\* one callback per change from before to after, none without a change
OncePerChange(before, after, values) ==
    /\ \A i \in 1..(Len(values) - 1) : values[i] # values[i + 1]
    /\ values = <<>> => after = before
    /\ values # <<>> => values[1] = ~before /\ values[Len(values)] = after

\* C6: for every Service and ServiceContainer, the change callbacks are
\* invoked exactly once for each actual change of the boolean and never by an
\* operation that leaves it at its previous value.
CallbackOncePerChange ==
    [][/\ \A s \in Services :
             OncePerChange(ready[s], ready'[s], NotifiedValues(notified', s))
       /\ \A c \in Containers :
             OncePerChange(services_ready[c], services_ready'[c],
                           NotifiedValues(notified', c))]_vars

\* a call changed a Service's ready and with it the container's services_ready
CallbackOncePerChangeWitness ==
    \E s \in Services, c \in Containers :
        /\ notified = <<[src |-> s, value |-> FALSE], [src |-> c, value |-> FALSE]>>
        /\ Len(container_services[c]) = 2

\* the global filter matches the record: name contained, every TXT pair equal
FilterAccepts(f, info) ==
    /\ IsSubstring(f.name, info.name)
    /\ \A i \in 1..Len(f.txt_records) :
           /\ f.txt_records[i][1] \in DOMAIN info.properties
           /\ info.properties[f.txt_records[i][1]] = f.txt_records[i][2]

\* the Service's own predicate: TXT service equals type, typestring contained
ServiceAccepts(s, info) ==
    /\ "service" \in DOMAIN info.properties
    /\ info.properties["service"].repr = ServiceType[s].repr
    /\ IsSubstring(Service_typestring(s), info.type)

\* new is old followed by one or more entries, all of them info
Received(old, new, info) ==
    /\ Len(new) > Len(old)
    /\ SubSeq(new, 1, Len(old)) = old
    /\ \A i \in (Len(old) + 1)..Len(new) : new[i] = info

\* C7: a record-added event that resolves to a record adds it to exactly the
\* registered Services for which the global filter and the Service's own
\* predicate both match; no other Service's records change.
AddedToExactlyTheMatching ==
    [][\A info \in Infos :
          OnAddService(info)
          => \A s \in Services :
                 IF /\ Contains(services, s)
                    /\ FilterAccepts(filter, info)
                    /\ ServiceAccepts(s, info)
                 THEN Received(service_infos[s], service_infos'[s], info)
                 ELSE service_infos'[s] = service_infos[s]]_vars

\* with both Services registered, a record of type config reached only s2
AddedToExactlyTheMatchingWitness ==
    /\ running /\ Truthy(browsers) /\ error = "none"
    /\ Contains(services, "s1") /\ Contains(services, "s2")
    /\ service_infos["s1"] = <<>>
    /\ service_infos["s2"] = <<InfoConfigB>>
    /\ notified = <<[src |-> "s2", value |-> TRUE]>>

\* list without its first entry named n
RECURSIVE RemoveFirstNamed(_, _)
RemoveFirstNamed(list, n) ==
    IF list = <<>> THEN <<>>
    ELSE IF Head(list).name = n THEN Tail(list)
    ELSE <<Head(list)>> \o RemoveFirstNamed(Tail(list), n)

\* C8: remove_service_info(r) removes the first held record whose name equals
\* r's name and leaves every other held record in place; without such a
\* record the collection is unchanged.
RemoveDropsFirstOfThatName ==
    [][\A s \in Services, info \in CallerInfos :
          RemoveServiceInfo(s, info)
          => service_infos'[s] = RemoveFirstNamed(service_infos[s], info.name)]_vars

\* the str of a TXT value, '' for a missing key
TxtStr(info, key) ==
    IF key \in DOMAIN info.properties THEN PyStr(info.properties[key].repr)
    ELSE PyStr("")

\* C9: after every add_service_info, remove_service_info and
\* clear_service_infos call, name, uri, uuid and version are those of the
\* first held record (empty for a missing TXT key) and, without records,
\* name == uri == uuid == '', version == 0 and ready == False.
FieldsMirrorFirstRecord ==
    \A s \in Services :
        IF service_infos[s] # <<>>
        THEN LET first == service_infos[s][1]
             IN /\ name[s] = first.name
                /\ uri[s] = TxtStr(first, "dsn")
                /\ uuid[s] = TxtStr(first, "uuid")
                /\ version[s] = IF "version" \in DOMAIN first.properties
                                THEN first.properties["version"]
                                ELSE PyBytes("")
        ELSE /\ name[s] = <<>>
             /\ uri[s] = PyStr("")
             /\ uuid[s] = PyStr("")
             /\ version[s] = PyInt("0")
             /\ ready[s] = FALSE

\* a Service holds two records of different names, the first without dsn
FieldsMirrorFirstRecordWitness ==
    \E s \in Services :
        /\ service_infos[s] = <<InfoConfigB, InfoLauncherA>>
        /\ uri[s] = PyStr("")
        /\ uuid[s] = PyStr("u3")

\* C10: a record-added or record-removed event whose resolution yields
\* nothing raises no error and changes no Service, no container and nothing
\* of the ServiceDiscovery.
UnresolvedEventIgnored ==
    [][(OnAddService(None) \/ OnRemoveService(None))
        => /\ error' = "none"
           /\ UNCHANGED <<name, uri, uuid, version, ready, service_infos,
                          on_ready_changed, container_services, services_ready,
                          filter, nameservers, is_ready, services, browsers,
                          zeroconfs, running>>]_vars

\* sessions are open, Services are registered and hold records, and the last
\* call raised nothing and ran no callback
UnresolvedEventIgnoredWitness ==
    /\ Truthy(browsers) /\ error = "none" /\ notified = <<>>
    /\ Len(services) = 2
    /\ \E s \in Services : Contains(services, s) /\ service_infos[s] # <<>>

\* the record lacks a TXT key the filter is configured with
LacksFilterKey(f, info) ==
    \E i \in 1..Len(f.txt_records) : f.txt_records[i][1] \notin DOMAIN info.properties

\* C11: a record that lacks a TXT key configured in the filter is a
\* non-match: matches_service_info returns False without raising, and the
\* record-added or record-removed event carrying it completes without error
\* and changes no Service.
MissingTxtKeyIsNonMatch ==
    [][\A info \in Infos :
          (LacksFilterKey(filter, info) /\ (OnAddService(info) \/ OnRemoveService(info)))
          => /\ ServiceDiscoveryFilter_matches_service_info(filter, info) = "False"
             /\ error' = "none"
             /\ UNCHANGED <<name, uri, uuid, version, ready, service_infos>>]_vars

\* C12: whenever an operation changes the ready value of a Service that is a
\* member of a ServiceContainer, on return the container's services_ready is
\* the logical AND of ready over its current members, the member's new value
\* included.
MemberChangeRecomputesContainer ==
    [][\A c \in Containers :
          (\E s \in Services :
               Contains(container_services'[c], s) /\ ready'[s] # ready[s])
          => services_ready'[c] =
                 (\A i \in 1..Len(container_services'[c]) :
                      ready'[container_services'[c][i]])]_vars

\* the second of two members has just become ready, and with it the container
MemberChangeRecomputesContainerWitness ==
    \E s \in Services, c \in Containers :
        /\ Len(container_services[c]) = 2
        /\ \A t \in Services : ready[t]
        /\ notified = <<[src |-> s, value |-> TRUE], [src |-> c, value |-> TRUE]>>

\* C13: start() called while the ServiceDiscovery is already running is a
\* no-op: it opens no further session and leaves is_ready, the session
\* handles, the registry and every Service unchanged.
StartWhileRunningIsNoOp ==
    [][(running /\ Start)
        => /\ unclosed' = unclosed
           /\ UNCHANGED <<is_ready, browsers, zeroconfs, services, name, uri, uuid,
                          version, ready, service_infos>>]_vars

\* discovery runs in unicast mode with a session per registered Service, one
\* of them holds a record, and the last call changed nothing to report
StartWhileRunningIsNoOpWitness ==
    /\ running /\ is_ready /\ error = "none" /\ notified = <<>>
    /\ nameservers # <<>>
    /\ Len(services) = 2 /\ unclosed = 2
    /\ \E s \in Services : Contains(services, s) /\ service_infos[s] # <<>>

\* the browsing sessions with the given scope and target address
SessionsFor(list, type_string, addr) ==
    {k \in 1..Len(list) : list[k].type = type_string /\ list[k].addr = addr}

\* '_{type}._sub._machinekit._tcp.local.'
UnicastScope(s) ==
    <<"_", ServiceType[s].repr, ".", "_", "sub", ".",
      "_", "machinekit", ".", "_", "tcp", ".", "local", ".">>

\* how often s is registered
Registrations(s) == Cardinality({i \in 1..Len(services) : services[i] = s})

StopClosesEverySession ==
    [][Stop => /\ unclosed' = 0
               /\ browsers'.list = <<>>
               /\ zeroconfs'.list = <<>>]_vars

\* stop() has just closed the two sessions of a unicast discovery
StopClosesEverySessionWitness ==
    /\ ~running /\ ~is_ready /\ unclosed = 0
    /\ nameservers # <<>> /\ Len(services) = 2
    /\ browsers = PyList(<<>>) /\ zeroconfs = PyList(<<>>)

\* C18: at the moment a ready-change callback of a Service is invoked with
\* value v, the resolved fields already agree with v: the first held record's
\* for v == True; name == uri == uuid == '' and version == 0 for v == False.
CallbackSeesConsistentFields ==
    \A i \in 1..Len(observed) :
        LET o == observed[i]
        IN IF o.value
           THEN /\ service_infos[o.src] # <<>>
                /\ o.name = service_infos[o.src][1].name
                /\ o.uri = TxtStr(service_infos[o.src][1], "dsn")
                /\ o.uuid = TxtStr(service_infos[o.src][1], "uuid")
           ELSE /\ o.name = <<>>
                /\ o.uri = PyStr("")
                /\ o.uuid = PyStr("")
                /\ o.version = PyInt("0")

\* C19: a record-added event for a record that a registered Service already
\* holds creates no second entry in that Service's record collection.
DuplicateAddedEventAddsNothing ==
    [][\A info \in Infos : \A s \in Services :
          (/\ OnAddService(info)
           /\ Contains(services, s)
           /\ \E i \in 1..Len(service_infos[s]) : service_infos[s][i].name = info.name)
          => service_infos'[s] = service_infos[s]]_vars

\* the Services whose ready differs between the two states of a step
ReadyChanged == {s \in Services : ready'[s] # ready[s]}

\* C20: once a ServiceContainer no longer has s among its services, a change
\* of s.ready neither changes the container's services_ready nor invokes its
\* on_services_ready_changed callbacks.
RemovedMemberIsUnsubscribed ==
    [][\A c \in Containers :
          (/\ ReadyChanged # {}
           /\ container_services'[c] = container_services[c]
           /\ \A s \in ReadyChanged : ~Contains(container_services[c], s))
          => /\ services_ready'[c] = services_ready[c]
             /\ \A i \in 1..Len(notified') : notified'[i].src # c]_vars

\* a Service outside the container has just become ready while the value the
\* container holds differs from the conjunction over its remaining member
RemovedMemberIsUnsubscribedWitness ==
    \E c \in Containers : \E s, t \in Services :
        /\ s # t
        /\ container_services[c] = <<t>>
        /\ on_ready_changed[s] = <<>>
        /\ notified = <<[src |-> s, value |-> TRUE]>>
        /\ ready[t] /\ ~services_ready[c]

\* C14: with record-added callbacks delivered by the discovery library's
\* threads concurrently with, or after, stop(): once no callback is in flight
\* and discovery is Idle (is_ready False), every registered Service has an
\* empty record collection and ready == False.
IdleLeavesNoRecord ==
    (~is_ready /\ \A t \in Threads : threads[t] = Idle)
    => \A i \in 1..Len(services) :
           service_infos[services[i]] = <<>> /\ ~ready[services[i]]

\* C15: with add_service_info, remove_service_info and clear_service_infos
\* interleaved statement by statement on threads of their own: once all calls
\* have finished, ready is True exactly when the record collection is
\* non-empty, and the resolved fields are the first held record's or reset.
ThreadsLeaveServiceConsistent ==
    (\A t \in Threads : threads[t] = Idle)
    => \A s \in Services :
           /\ ready[s] <=> (service_infos[s] # <<>>)
           /\ IF service_infos[s] # <<>>
              THEN /\ name[s] = service_infos[s][1].name
                   /\ uri[s] = TxtStr(service_infos[s][1], "dsn")
                   /\ uuid[s] = TxtStr(service_infos[s][1], "uuid")
              ELSE /\ name[s] = <<>>
                   /\ uri[s] = PyStr("")
                   /\ uuid[s] = PyStr("")
                   /\ version[s] = PyInt("0")

====
